---- MODULE Spec2Model ----
(***************************************************************************)
(* Spread-based automated SHORT trading of the MEXC bot.                   *)
(*                                                                         *)
(*  - Spec, SpecWired: the hysteresis state machine of                     *)
(*    services/spreadMonitoringService.ts (checkAndExecuteSpreadTrades),   *)
(*    one evaluation of a symbol per step, with callbacks that report what *)
(*    the exchange reports or with the closures that                       *)
(*    workflows/spreadMonitoringWorkflow.ts hands to it.                   *)
(*  - SpecTick: passes of monitoringLoop over two users and their symbols. *)
(*  - SpecScheduler, SpecSchedulerFair: startSpreadMonitoring,             *)
(*    stopSpreadMonitoring, the timers and the suspended executions of     *)
(*    monitoringLoop.                                                      *)
(*  - SpecShipped, SpecShippedFair: the deployment, where the single       *)
(*    chain of timers started by index.ts runs the passes and every pass   *)
(*    calls the service with the closures it builds.                       *)
(*  - SpecRace: one pair statement by statement, with getOrCreateState     *)
(*    called concurrently and /closebs racing the exit block.              *)
(*                                                                         *)
(* Prices are integers in units of 0.001 USDT.  A price of 0 stands for    *)
(* every value the code treats as "no price" (null, 0, NaN).  The spread   *)
(* is kept in thousandths of a percent, rounded down, which decides every  *)
(* comparison with the integer thresholds exactly as the rational value    *)
(* does; on the price grid below the IEEE double computed by the code      *)
(* falls on the same side of each threshold.                               *)
(***************************************************************************)
EXTENDS Integers, Sequences, FiniteSets, TLC

\* ------------------------------------------------------------------ bounds
MaxWrites == 3       \* writes of lastActionAt to one row in one behaviour
MaxFaults == 1       \* external calls that may fail within one evaluation
MaxChains == 3       \* timers and passes of monitoringLoop alive at once
MaxCloses == 2       \* close-short calls counted for one pair

\* --------------------------------------------------------------- constants
ENTRY_SPREAD == 13
RESET_SPREAD == 7
EXIT_SPREAD == 2
Scale == 1000        \* spread unit: 1/Scale percent

Users == {"u1", "u2"}
Symbols == {"A", "B", "C"}
Pairs == Users \X Symbols

\* rows of autoCommands: spreadMonitoringEnabled and the parsed commands
\* column (symbol, and whether dexPairId is set)
NoAutoCmd == [present |-> FALSE, enabled |-> FALSE, commands |-> << >>]
ListAC == << [symbol |-> "A", dexPairId |-> TRUE],
             [symbol |-> "C", dexPairId |-> FALSE] >>
\* the rows of a pass of monitoringLoop over two users
ListU1 == << [symbol |-> "A", dexPairId |-> TRUE],
             [symbol |-> "C", dexPairId |-> FALSE],
             [symbol |-> "B", dexPairId |-> TRUE] >>
ListU2 == << [symbol |-> "B", dexPairId |-> TRUE] >>

\* price grid, << MEXC, DEX >>: DEX 1000 with MEXC 1%, 2%, 6%, 7%, 10%,
\* 12.9%, 13%, 14% above it and 14% below it; the two quotes of the debug
\* commands (100 / 86.9 and 100 / 101.5); 0 = no price
MexcPrices == {0, 860, 1010, 1020, 1060, 1070, 1100, 1129, 1130, 1140}
Quotes == {<< m, 1000 >> : m \in MexcPrices}
            \cup {<< 1000, 0 >>, << 1000, 869 >>, << 1000, 1015 >>}

\* external calls of one evaluation that can fail:
\*   price the MEXC price fetcher rejects
\*   read  the database fails in getOrCreateState
\*   pos1  positionsFetcher at the auto-position check
\*   pos2  fetchPositions inside hasOpenPositionOrOrder
\*   ord   fetchOrders inside hasOpenPositionOrOrder
\*   open  the exchange does not accept the open-short order
\*   pos3  positionsFetcher of the exit logic
\*   close the exchange does not accept the close-short order
\*   write the database fails in updateState
\*   note  telegramSender rejects
FaultKinds == {"price", "read", "pos1", "pos2", "ord", "open", "pos3",
               "close", "write", "note"}
FaultSets == {F \in SUBSET FaultKinds : Cardinality(F) <= MaxFaults}

\* callbacks that are the closures built in monitoringLoop (the others are
\* callbacks that report what the exchange reports)
WiringKinds == {"price", "inspect", "trade"}

Abs(x) == IF x < 0 THEN -x ELSE x

\* ------------------------------------------------------------ pure helpers
calculateSpread(mexcPrice, dexPrice) ==
  (Abs(mexcPrice - dexPrice) * 100 * Scale) \div dexPrice

NoSnap == << 0, 0, 0 >>
NoRec == [exists |-> FALSE, wasTriggered |-> FALSE, snap |-> NoSnap,
          lastActionAt |-> 0]

\* db.insert(...).values({wasTriggered: false}) when no row is found
getOrCreateState(rec) ==
  IF rec.exists THEN rec
  ELSE [exists |-> TRUE, wasTriggered |-> FALSE, snap |-> NoSnap,
        lastActionAt |-> 0]

\* lastActionAt: new Date() is later than every earlier timestamp of the
\* row; timestamps are numbered in the order they are written
updateState(rec, wasTriggered, mexcPrice, dexPrice, spreadPercent) ==
  [rec EXCEPT !.wasTriggered = wasTriggered,
              !.snap = << mexcPrice, dexPrice, spreadPercent >>,
              !.lastActionAt = rec.lastActionAt + 1]

\* ------------------------------------------------- callbacks of one tick
\* Each callback yields [ok, ...]: ok = FALSE means the promise rejected.

\* /lb SYMBOL: getFourthAskPrice reads the order book (ask = 0: no answer,
\* the command returns); otherwise openLongLimitTool is executed with
\* that price: a LONG limit order is submitted
lbCommand(ask) == [sub |-> ask # 0]

\* "price" wired: the closure runs /lb and returns null in both branches
mexcPriceFetcher(w, m) == IF "price" \in w THEN 0 ELSE m

\* the order the price fetch leaves on the exchange
lbOrder(w, m) == "price" \in w /\ lbCommand(m).sub

\* "inspect" wired: the closures return [] from the try and from the catch
positionsFetcher(w, short, failed) ==
  IF "inspect" \in w THEN [ok |-> TRUE, short |-> FALSE]
  ELSE [ok |-> ~failed, short |-> short /\ ~failed]

ordersFetcher(w, ord, failed) ==
  IF "inspect" \in w THEN [ok |-> TRUE, short |-> FALSE]
  ELSE [ok |-> ~failed, short |-> ord /\ ~failed]

\* "trade" wired: parseAndExecuteCommand returns the tool's text whether
\* or not the order was accepted (executeToolDirect catches); sub = the
\* exchange accepted the order
openShortCallback(w, failed) ==
  IF "trade" \in w THEN [ok |-> TRUE, sub |-> ~failed]
  ELSE [ok |-> ~failed, sub |-> ~failed]

closeShortCallback(w, failed) ==
  IF "trade" \in w THEN [ok |-> TRUE, sub |-> ~failed]
  ELSE [ok |-> ~failed, sub |-> ~failed]

\* variant: the order list is not consulted
hasOpenPositionOrOrder_NoOrders(P, O) ==
  IF ~P.ok \/ ~O.ok THEN TRUE
  ELSE P.short

\* variant: the position list is not consulted
hasOpenPositionOrOrder_NoPositions(P, O) ==
  IF ~P.ok \/ ~O.ok THEN TRUE
  ELSE O.short

hasOpenPositionOrOrder(P, O) ==
  IF ~P.ok \/ ~O.ok THEN TRUE       \* catch: return true
  ELSE P.short \/ O.short

\* ------------------------------------------- one symbol of one tick
\* Effects of the body of the for loop.  e.rec is the row of the pair,
\* threw = an exception reached the per-symbol catch, at = the call that
\* raised it, longSub = the price fetch placed a LONG limit order,
\* decision = the label written to the log ("none": nothing is logged).
NoEffect(rec) ==
  [rec |-> rec, priced |-> FALSE, threw |-> FALSE, at |-> "none",
   openCall |-> FALSE, openSub |-> FALSE,
   closeCall |-> FALSE, closeSub |-> FALSE, notes |-> 0,
   longSub |-> FALSE, decision |-> "none"]

Throw(e, at) == [e EXCEPT !.threw = TRUE, !.at = at]

\* the decision label of the log line of the symbol
decision(state, mexcPrice, dexPrice, spreadPercent) ==
  IF spreadPercent >= ENTRY_SPREAD * Scale /\ mexcPrice > dexPrice
     /\ ~state.wasTriggered
  THEN "enter"
  ELSE IF state.wasTriggered /\ spreadPercent < RESET_SPREAD * Scale
  THEN "wait reset"
  ELSE IF state.wasTriggered /\ spreadPercent < EXIT_SPREAD * Scale
  THEN "close"
  ELSE IF state.wasTriggered THEN "hold"
  ELSE "skip"

\* variant: the entry guard does not read wasTriggered
EntryLogic_NoHysteresis(e, state, w, short, in, mexcPrice, dexPrice, spreadPercent) ==
  IF spreadPercent >= ENTRY_SPREAD * Scale /\ mexcPrice > dexPrice
  THEN LET hasOpen == hasOpenPositionOrOrder(
                        positionsFetcher(w, short, "pos2" \in in.faults),
                        ordersFetcher(w, in.ord, "ord" \in in.faults))
           r == openShortCallback(w, "open" \in in.faults)
           o == [e EXCEPT !.openCall = TRUE, !.openSub = r.sub]
           u == [o EXCEPT !.rec = updateState(e.rec, TRUE, mexcPrice,
                                              dexPrice, spreadPercent)]
       IN IF hasOpen THEN e
          ELSE IF ~r.ok THEN Throw([e EXCEPT !.openCall = TRUE], "open")
          ELSE IF "write" \in in.faults THEN Throw(o, "write")
          ELSE IF "note" \in in.faults THEN Throw(u, "note")
          ELSE [u EXCEPT !.notes = e.notes + 1]
  ELSE e

\* variant: the entry threshold is exclusive
EntryLogic_StrictEntry(e, state, w, short, in, mexcPrice, dexPrice, spreadPercent) ==
  IF spreadPercent > ENTRY_SPREAD * Scale /\ mexcPrice > dexPrice
     /\ ~state.wasTriggered
  THEN LET hasOpen == hasOpenPositionOrOrder(
                        positionsFetcher(w, short, "pos2" \in in.faults),
                        ordersFetcher(w, in.ord, "ord" \in in.faults))
           r == openShortCallback(w, "open" \in in.faults)
           o == [e EXCEPT !.openCall = TRUE, !.openSub = r.sub]
           u == [o EXCEPT !.rec = updateState(e.rec, TRUE, mexcPrice,
                                              dexPrice, spreadPercent)]
       IN IF hasOpen THEN e
          ELSE IF ~r.ok THEN Throw([e EXCEPT !.openCall = TRUE], "open")
          ELSE IF "write" \in in.faults THEN Throw(o, "write")
          ELSE IF "note" \in in.faults THEN Throw(u, "note")
          ELSE [u EXCEPT !.notes = e.notes + 1]
  ELSE e

\* variant: the row is written before the open-short call
EntryLogic_WriteFirst(e, state, w, short, in, mexcPrice, dexPrice, spreadPercent) ==
  IF spreadPercent >= ENTRY_SPREAD * Scale /\ mexcPrice > dexPrice
     /\ ~state.wasTriggered
  THEN LET hasOpen == hasOpenPositionOrOrder(
                        positionsFetcher(w, short, "pos2" \in in.faults),
                        ordersFetcher(w, in.ord, "ord" \in in.faults))
           r == openShortCallback(w, "open" \in in.faults)
           written == updateState(e.rec, TRUE, mexcPrice, dexPrice,
                                  spreadPercent)
           o == [e EXCEPT !.openCall = TRUE, !.openSub = r.sub,
                          !.rec = written]
       IN IF hasOpen THEN e
          ELSE IF "write" \in in.faults THEN Throw(e, "write")
          ELSE IF ~r.ok
               THEN Throw([e EXCEPT !.openCall = TRUE, !.rec = written],
                          "open")
          ELSE IF "note" \in in.faults THEN Throw(o, "note")
          ELSE [o EXCEPT !.notes = e.notes + 1]
  ELSE e

\* variant: the entry guard does not compare the two prices
EntryLogic_AnyDirection(e, state, w, short, in, mexcPrice, dexPrice, spreadPercent) ==
  IF spreadPercent >= ENTRY_SPREAD * Scale /\ ~state.wasTriggered
  THEN LET hasOpen == hasOpenPositionOrOrder(
                        positionsFetcher(w, short, "pos2" \in in.faults),
                        ordersFetcher(w, in.ord, "ord" \in in.faults))
           r == openShortCallback(w, "open" \in in.faults)
           o == [e EXCEPT !.openCall = TRUE, !.openSub = r.sub]
           u == [o EXCEPT !.rec = updateState(e.rec, TRUE, mexcPrice,
                                              dexPrice, spreadPercent)]
       IN IF hasOpen THEN e
          ELSE IF ~r.ok THEN Throw([e EXCEPT !.openCall = TRUE], "open")
          ELSE IF "write" \in in.faults THEN Throw(o, "write")
          ELSE IF "note" \in in.faults THEN Throw(u, "note")
          ELSE [u EXCEPT !.notes = e.notes + 1]
  ELSE e

\* variant: a rejected notification undoes the write of the row
EntryLogic_NoteRollback(e, state, w, short, in, mexcPrice, dexPrice, spreadPercent) ==
  IF spreadPercent >= ENTRY_SPREAD * Scale /\ mexcPrice > dexPrice
     /\ ~state.wasTriggered
  THEN LET hasOpen == hasOpenPositionOrOrder(
                        positionsFetcher(w, short, "pos2" \in in.faults),
                        ordersFetcher(w, in.ord, "ord" \in in.faults))
           r == openShortCallback(w, "open" \in in.faults)
           o == [e EXCEPT !.openCall = TRUE, !.openSub = r.sub]
           u == [o EXCEPT !.rec = updateState(e.rec, TRUE, mexcPrice,
                                              dexPrice, spreadPercent)]
       IN IF hasOpen THEN e
          ELSE IF ~r.ok THEN Throw([e EXCEPT !.openCall = TRUE], "open")
          ELSE IF "write" \in in.faults THEN Throw(o, "write")
          ELSE IF "note" \in in.faults THEN Throw(o, "note")
          ELSE [u EXCEPT !.notes = e.notes + 1]
  ELSE e

EntryLogic(e, state, w, short, in, mexcPrice, dexPrice, spreadPercent) ==
  IF spreadPercent >= ENTRY_SPREAD * Scale /\ mexcPrice > dexPrice
     /\ ~state.wasTriggered
  THEN LET hasOpen == hasOpenPositionOrOrder(
                        positionsFetcher(w, short, "pos2" \in in.faults),
                        ordersFetcher(w, in.ord, "ord" \in in.faults))
           r == openShortCallback(w, "open" \in in.faults)
           o == [e EXCEPT !.openCall = TRUE, !.openSub = r.sub]
           u == [o EXCEPT !.rec = updateState(e.rec, TRUE, mexcPrice,
                                              dexPrice, spreadPercent)]
       IN IF hasOpen THEN e
          ELSE IF ~r.ok THEN Throw([e EXCEPT !.openCall = TRUE], "open")
          ELSE IF "write" \in in.faults THEN Throw(o, "write")
          ELSE IF "note" \in in.faults THEN Throw(u, "note")
          ELSE [u EXCEPT !.notes = e.notes + 1]
  ELSE e

\* variant: the reset uses the exit threshold
ResetLogic_ExitThreshold(e, state, in, mexcPrice, dexPrice, spreadPercent) ==
  IF state.wasTriggered /\ spreadPercent < EXIT_SPREAD * Scale
  THEN IF "write" \in in.faults THEN Throw(e, "write")
       ELSE [e EXCEPT !.rec = updateState(e.rec, FALSE, mexcPrice, dexPrice,
                                          spreadPercent)]
  ELSE e

\* variant: the reset sends a notification
ResetLogic_Notifies(e, state, in, mexcPrice, dexPrice, spreadPercent) ==
  IF state.wasTriggered /\ spreadPercent < RESET_SPREAD * Scale
  THEN IF "write" \in in.faults THEN Throw(e, "write")
       ELSE [e EXCEPT !.rec = updateState(e.rec, FALSE, mexcPrice, dexPrice,
                                          spreadPercent),
                      !.notes = e.notes + 1]
  ELSE e

\* variant: a tick that does not reset records its prices in the row
ResetLogic_Snapshot(e, state, in, mexcPrice, dexPrice, spreadPercent) ==
  IF "write" \in in.faults THEN Throw(e, "write")
  ELSE [e EXCEPT !.rec = updateState(e.rec,
                           IF spreadPercent < RESET_SPREAD * Scale THEN FALSE
                           ELSE e.rec.wasTriggered,
                           mexcPrice, dexPrice, spreadPercent)]

\* variant: the reset clears the flag and keeps the snapshot of the entry
ResetLogic_FlagOnly(e, state, in, mexcPrice, dexPrice, spreadPercent) ==
  IF state.wasTriggered /\ spreadPercent < RESET_SPREAD * Scale
  THEN IF "write" \in in.faults THEN Throw(e, "write")
       ELSE [e EXCEPT !.rec.wasTriggered = FALSE,
                      !.rec.lastActionAt = e.rec.lastActionAt + 1]
  ELSE e

\* variant: the reset leaves the flag to the exit below 2%
ResetLogic_AboveExit(e, state, in, mexcPrice, dexPrice, spreadPercent) ==
  IF state.wasTriggered /\ spreadPercent < RESET_SPREAD * Scale
     /\ spreadPercent >= EXIT_SPREAD * Scale
  THEN IF "write" \in in.faults THEN Throw(e, "write")
       ELSE [e EXCEPT !.rec = updateState(e.rec, FALSE, mexcPrice, dexPrice,
                                          spreadPercent)]
  ELSE e

ResetLogic(e, state, in, mexcPrice, dexPrice, spreadPercent) ==
  IF state.wasTriggered /\ spreadPercent < RESET_SPREAD * Scale
  THEN IF "write" \in in.faults THEN Throw(e, "write")
       ELSE [e EXCEPT !.rec = updateState(e.rec, FALSE, mexcPrice, dexPrice,
                                          spreadPercent)]
  ELSE e

\* variant: the exit does not look for an open SHORT
ExitLogic_NoPositionCheck(e, state, w, short, in, spreadPercent) ==
  IF state.wasTriggered /\ spreadPercent < EXIT_SPREAD * Scale
  THEN LET P == positionsFetcher(w, short, "pos3" \in in.faults)
           r == closeShortCallback(w, "close" \in in.faults)
           c == [e EXCEPT !.closeCall = TRUE, !.closeSub = r.sub]
       IN IF ~P.ok THEN Throw(e, "pos3")
          ELSE IF ~r.ok THEN Throw([e EXCEPT !.closeCall = TRUE], "close")
          ELSE IF "note" \in in.faults THEN Throw(c, "note")
          ELSE [c EXCEPT !.notes = e.notes + 1]
  ELSE e

\* variant: the exit threshold is inclusive
ExitLogic_InclusiveExit(e, state, w, short, in, spreadPercent) ==
  IF state.wasTriggered /\ spreadPercent <= EXIT_SPREAD * Scale
  THEN LET P == positionsFetcher(w, short, "pos3" \in in.faults)
           r == closeShortCallback(w, "close" \in in.faults)
           c == [e EXCEPT !.closeCall = TRUE, !.closeSub = r.sub]
       IN IF ~P.ok THEN Throw(e, "pos3")
          ELSE IF ~P.short THEN e
          ELSE IF ~r.ok THEN Throw([e EXCEPT !.closeCall = TRUE], "close")
          ELSE IF "note" \in in.faults THEN Throw(c, "note")
          ELSE [c EXCEPT !.notes = e.notes + 1]
  ELSE e

\* variant: the exit guard reads the flag the reset has just written
ExitLogic_FreshFlag(e, state, w, short, in, spreadPercent) ==
  IF e.rec.wasTriggered /\ spreadPercent < EXIT_SPREAD * Scale
  THEN LET P == positionsFetcher(w, short, "pos3" \in in.faults)
           r == closeShortCallback(w, "close" \in in.faults)
           c == [e EXCEPT !.closeCall = TRUE, !.closeSub = r.sub]
       IN IF ~P.ok THEN Throw(e, "pos3")
          ELSE IF ~P.short THEN e
          ELSE IF ~r.ok THEN Throw([e EXCEPT !.closeCall = TRUE], "close")
          ELSE IF "note" \in in.faults THEN Throw(c, "note")
          ELSE [c EXCEPT !.notes = e.notes + 1]
  ELSE e

\* variant: the exit guard reads the flag as the entry has just written it
\* and has no spread condition
ExitLogic_AfterEntry(e, state, w, short, in, spreadPercent) ==
  IF e.rec.wasTriggered
  THEN LET P == positionsFetcher(w, short \/ e.openSub, "pos3" \in in.faults)
           r == closeShortCallback(w, "close" \in in.faults)
           c == [e EXCEPT !.closeCall = TRUE, !.closeSub = r.sub]
       IN IF ~P.ok THEN Throw(e, "pos3")
          ELSE IF ~P.short THEN e
          ELSE IF ~r.ok THEN Throw([e EXCEPT !.closeCall = TRUE], "close")
          ELSE IF "note" \in in.faults THEN Throw(c, "note")
          ELSE [c EXCEPT !.notes = e.notes + 1]
  ELSE e

ExitLogic(e, state, w, short, in, spreadPercent) ==
  IF state.wasTriggered /\ spreadPercent < EXIT_SPREAD * Scale
  THEN LET P == positionsFetcher(w, short, "pos3" \in in.faults)
           r == closeShortCallback(w, "close" \in in.faults)
           c == [e EXCEPT !.closeCall = TRUE, !.closeSub = r.sub]
       IN IF ~P.ok THEN Throw(e, "pos3")
          ELSE IF ~P.short THEN e
          ELSE IF ~r.ok THEN Throw([e EXCEPT !.closeCall = TRUE], "close")
          ELSE IF "note" \in in.faults THEN Throw(c, "note")
          ELSE [c EXCEPT !.notes = e.notes + 1]
  ELSE e

\* variant: the row is read (and created) before the prices are looked at
Evaluate_StateFirst(rec, short, w, in) ==
  LET mexcPrice == mexcPriceFetcher(w, in.m)
      long == lbOrder(w, in.m)
      dexPrice == in.d
  IN IF "price" \in in.faults /\ "price" \notin w
     THEN Throw(NoEffect(rec), "price")
     ELSE IF mexcPrice = 0 \/ dexPrice = 0
     THEN [NoEffect(getOrCreateState(rec)) EXCEPT !.longSub = long]
     ELSE IF "read" \in in.faults
     THEN Throw([NoEffect(rec) EXCEPT !.priced = TRUE, !.longSub = long],
                "read")
     ELSE
       LET spreadPercent == calculateSpread(mexcPrice, dexPrice)
           state == getOrCreateState(rec)
           e0 == [NoEffect(state) EXCEPT !.priced = TRUE, !.longSub = long]
           P1 == positionsFetcher(w, short, "pos1" \in in.faults)
           eL == [e0 EXCEPT !.decision = decision(state, mexcPrice,
                                                  dexPrice, spreadPercent)]
           e1 == EntryLogic(eL, state, w, short, in, mexcPrice, dexPrice,
                            spreadPercent)
           e2 == IF e1.threw THEN e1
                 ELSE ResetLogic(e1, state, in, mexcPrice, dexPrice,
                                 spreadPercent)
           e3 == IF e2.threw THEN e2
                 ELSE ExitLogic(e2, state, w, short, in, spreadPercent)
       IN IF ~P1.ok THEN Throw(e0, "pos1") ELSE e3

\* variant: only the MEXC price is checked; a DEX price of 0 then gives
\* the spread Math.abs(m - 0) / 0 * 100 = Infinity
Evaluate_MexcOnly(rec, short, w, in) ==
  LET mexcPrice == mexcPriceFetcher(w, in.m)
      long == lbOrder(w, in.m)
      dexPrice == in.d
  IN IF "price" \in in.faults /\ "price" \notin w
     THEN Throw(NoEffect(rec), "price")
     ELSE IF mexcPrice = 0
     THEN [NoEffect(rec) EXCEPT !.longSub = long]
     ELSE IF "read" \in in.faults
     THEN Throw([NoEffect(rec) EXCEPT !.priced = TRUE, !.longSub = long],
                "read")
     ELSE
       LET spreadPercent == IF dexPrice = 0 THEN 1000 * Scale
                            ELSE calculateSpread(mexcPrice, dexPrice)
           state == getOrCreateState(rec)
           e0 == [NoEffect(state) EXCEPT !.priced = TRUE, !.longSub = long]
           P1 == positionsFetcher(w, short, "pos1" \in in.faults)
           eL == [e0 EXCEPT !.decision = decision(state, mexcPrice,
                                                  dexPrice, spreadPercent)]
           e1 == EntryLogic(eL, state, w, short, in, mexcPrice, dexPrice,
                            spreadPercent)
           e2 == IF e1.threw THEN e1
                 ELSE ResetLogic(e1, state, in, mexcPrice, dexPrice,
                                 spreadPercent)
           e3 == IF e2.threw THEN e2
                 ELSE ExitLogic(e2, state, w, short, in, spreadPercent)
       IN IF ~P1.ok THEN Throw(e0, "pos1") ELSE e3

\* rec: the row before the tick, short: an open SHORT exists on the
\* exchange, w: wiring, in: what the outside world answers.  The MEXC
\* price is fetched first; a row is read only when both prices are there;
\* the label is logged once the positions are listed.
Evaluate(rec, short, w, in) ==
  LET mexcPrice == mexcPriceFetcher(w, in.m)
      long == lbOrder(w, in.m)
      dexPrice == in.d
  IN IF "price" \in in.faults /\ "price" \notin w
     THEN Throw(NoEffect(rec), "price")
     ELSE IF mexcPrice = 0 \/ dexPrice = 0
     THEN [NoEffect(rec) EXCEPT !.longSub = long]
     ELSE IF "read" \in in.faults
     THEN Throw([NoEffect(rec) EXCEPT !.priced = TRUE, !.longSub = long],
                "read")
     ELSE
       LET spreadPercent == calculateSpread(mexcPrice, dexPrice)
           state == getOrCreateState(rec)
           e0 == [NoEffect(state) EXCEPT !.priced = TRUE, !.longSub = long]
           P1 == positionsFetcher(w, short, "pos1" \in in.faults)
           eL == [e0 EXCEPT !.decision = decision(state, mexcPrice,
                                                  dexPrice, spreadPercent)]
           e1 == EntryLogic(eL, state, w, short, in, mexcPrice, dexPrice,
                            spreadPercent)
           e2 == IF e1.threw THEN e1
                 ELSE ResetLogic(e1, state, in, mexcPrice, dexPrice,
                                 spreadPercent)
           e3 == IF e2.threw THEN e2
                 ELSE ExitLogic(e2, state, w, short, in, spreadPercent)
       IN IF ~P1.ok THEN Throw(e0, "pos1") ELSE e3

\* ------------------------------------------------------------------ state
VARIABLES
  wiring,   \* callbacks that are the closures of monitoringLoop
  closeCalls,  \* history: close-short calls per pair since its latest ENTER
  autoCmd,  \* autoCommands: the row of every user
  rec,      \* spread_monitoring_state: the row of every (user, symbol)
  short,    \* the exchange: an open SHORT (quantity > 0) per pair
  auto,     \* history: that SHORT was opened by the engine's ENTER
  call,     \* checkAndExecuteSpreadTrades in progress: user and loop index
  last,     \* history: the evaluation just performed, until the next call
            \* or manual trade
  pend,     \* history: the latest evaluation of a pair whose trade call
            \* threw, or whose write after the open-short failed
  logA,     \* history: progress along ScenA on the tracked pair
  logB,     \* history: progress along ScenB on the tracked pair
  tick,     \* the pass of monitoringLoop over the users in progress
  trail,    \* history: the commands handled since the pass (or the call,
            \* when the service is called directly) began, with outcomes
  isMonitoring,      \* module variable of spreadMonitoringWorkflow.ts
  monitoringHandle,  \* module variable: the Timeout last assigned, 0 = null
  chains,   \* every setTimeout(monitoringLoop) and the execution it starts
  op,       \* history: the latest operation of the scheduler, or the
            \* debug function called since the latest direct call of the
            \* service
  table,    \* the rows of one pair in spread_monitoring_state, statement
            \* by statement: wasTriggered of each row
  uniqueKey,   \* the table has a unique index on (telegram_user_id, symbol)
  procs,    \* the callers of getOrCreateState for that pair, await by await
  xshort,   \* the SHORT of that pair is open on the exchange
  closeOrders, \* close orders submitted for that SHORT
  manual    \* the /closebs command of the user, await by await

vars == << wiring, closeCalls, autoCmd, rec, short, auto, call, last, pend,
           logA, logB, tick, trail, isMonitoring, monitoringHandle, chains,
           op, table, uniqueKey, procs, xshort, closeOrders, manual >>

\* the variables of the statement-level view of one pair
race == << table, uniqueKey, procs, xshort, closeOrders, manual >>

\* the variables of the scheduler
sched == << isMonitoring, monitoringHandle, chains, op >>
\* the variables of the service, its callers and the exchange
service == << wiring, closeCalls, autoCmd, rec, short, auto, call, last, pend,
              logA, logB, tick, trail >>

NoCall == [user |-> "none", idx |-> 0]
NoKey == << "none", "none" >>
NoInput == [m |-> 0, d |-> 0, ord |-> FALSE, faults |-> {}]
NoLast == [key |-> NoKey, in |-> NoInput, pre |-> NoRec, short |-> FALSE,
           auto |-> FALSE, eff |-> NoEffect(NoRec), prev |-> "none"]

NoPend == [key |-> NoKey, in |-> NoInput, short |-> FALSE, kind |-> "none"]

Inputs == {[m |-> q[1], d |-> q[2], ord |-> o, faults |-> F] :
             q \in Quotes, o \in BOOLEAN, F \in FaultSets}

\* what the outside world answers during a pass of monitoringLoop: an
\* entry quote, an exit quote, either price missing, and one failing call:
\* each call of an entry, the close-short and the notification of an
\* exit, the database on a symbol without price
TickQuotes == {<< 1140, 1000 >>, << 1010, 1000 >>, << 0, 1000 >>,
               << 1000, 0 >>}
TickFaults == {"price", "read", "pos1", "open", "write", "note"}
TickInputs ==
  {in \in Inputs :
     /\ << in.m, in.d >> \in TickQuotes /\ ~in.ord
     /\ \/ in.faults = {}
        \/ in.m = 1140 /\ \E k \in TickFaults : in.faults = {k}
        \/ in.m = 1010 /\ in.faults \in {{"close"}, {"note"}}
        \/ in.m = 0 /\ in.faults = {"read"}}

\* tick.mode: "free" = the service is called directly, "idle" = no pass
\* of monitoringLoop is running, "run" = a pass is at the users in todo
FreeTick == [mode |-> "free", all |-> << >>, todo |-> << >>]
IdleTick == [mode |-> "idle", all |-> << >>, todo |-> << >>]

\* the pairs the loop evaluates: symbols with a DEX pair in the row of a
\* user with monitoring on
Monitored ==
  {p \in Pairs : /\ autoCmd[p[1]].enabled
                 /\ \E i \in 1..Len(autoCmd[p[1]].commands) :
                      /\ autoCmd[p[1]].commands[i].symbol = p[2]
                      /\ autoCmd[p[1]].commands[i].dexPairId}

\* the scenarios of the hysteresis tests: MEXC prices against DEX 1000
Tracked == << "u1", "A" >>
ScenA == << 1140, 1100, 1140, 1100 >>      \* spreads 14, 10, 14, 10
ScenB == << 1140, 1060, 1140 >>            \* spreads 14, 6, 14

\* a tick of a scenario: both prices there, DEX at 1000, every call
\* answered, no pending order listed
Nominal(in) == in.d = 1000 /\ in.m # 0 /\ in.faults = {} /\ ~in.ord

\* the log of a scenario after a tick of the tracked pair: one entry per
\* tick matched so far, started from an unarmed pair without position
NextLog(S, log, in, pre, sh, e) ==
  LET entry == [open |-> e.openCall, armed |-> e.rec.wasTriggered,
                short |-> sh]
  IN IF Nominal(in) /\ log # << >> /\ Len(log) < Len(S)
        /\ in.m = S[Len(log) + 1]
     THEN Append(log, entry)
     ELSE IF Nominal(in) /\ in.m = S[1] /\ ~pre.wasTriggered /\ ~sh
          THEN << entry >>
          ELSE << >>

\* no state row, no position, no evaluation yet
InitRows ==
  /\ rec = [p \in Pairs |-> NoRec]
  /\ short = [p \in Pairs |-> FALSE]
  /\ auto = [p \in Pairs |-> FALSE]
  /\ closeCalls = [p \in Pairs |-> 0]
  /\ call = NoCall
  /\ last = NoLast
  /\ pend = NoPend
  /\ logA = << >>
  /\ logB = << >>
  /\ trail = << >>

\* a slot of the scheduler: a pending timer, or the execution of
\* monitoringLoop that the timer has started; todo = users still to go
ChainIds == 1..MaxChains
FreeChain == [pc |-> "free", todo |-> 0]
NoOp == [name |-> "none", c |-> 0, mon |-> FALSE]

\* the callers of getOrCreateState
Callers == {"tick", "testSpreadEntry", "testSpreadExit"}
NoProc == [pc |-> "idle", state |-> "none"]

\* the module is loaded: isMonitoring = false, monitoringHandle = null
InitSched ==
  /\ isMonitoring = FALSE
  /\ monitoringHandle = 0
  /\ chains = [c \in ChainIds |-> FreeChain]
  /\ op = NoOp

\* the statement-level view is not used
InitNoRace ==
  /\ table = << >>
  /\ uniqueKey = FALSE
  /\ procs = [p \in Callers |-> NoProc]
  /\ xshort = FALSE
  /\ closeOrders = 0
  /\ manual = "idle"

TypeOK ==
  /\ wiring \in SUBSET WiringKinds
  /\ \A p \in Pairs : /\ rec[p].wasTriggered \in BOOLEAN
                      /\ rec[p].lastActionAt \in 0..MaxWrites
                      /\ ~rec[p].exists => rec[p] = NoRec
  /\ short \in [Pairs -> BOOLEAN]
  /\ auto \in [Pairs -> BOOLEAN]
  /\ call.idx \in 0..3
  /\ tick.mode \in {"free", "idle", "run"}
  /\ Len(logA) <= Len(ScenA) /\ Len(logB) <= Len(ScenB)

\* u1 monitors ListAC; u2 has no row of autoCommands, or a row with
\* monitoring off
Init0 ==
  /\ \E off \in {NoAutoCmd, [present |-> TRUE, enabled |-> FALSE,
                              commands |-> ListU2]} :
       autoCmd = [u \in Users |->
                    IF u = "u1"
                    THEN [present |-> TRUE, enabled |-> TRUE,
                          commands |-> ListAC]
                    ELSE off]
  /\ tick = FreeTick
  /\ InitRows
  /\ InitSched
  /\ InitNoRace

\* two users with monitoring enabled, evaluated by passes of monitoringLoop
InitTick ==
  /\ wiring = {}
  /\ autoCmd = [u \in Users |->
                  [present |-> TRUE, enabled |-> TRUE,
                   commands |-> IF u = "u1" THEN ListU1 ELSE ListU2]]
  /\ tick = IdleTick
  /\ InitRows
  /\ InitSched
  /\ InitNoRace

\* the service driven with callbacks that report what the exchange reports
Init == wiring = {} /\ Init0

\* ---------------------------------------------------------------- actions
\* the service is called for user u: directly, or by the pass of
\* monitoringLoop, which calls it for the users of its list in order
MayCall(u) ==
  \/ tick.mode = "free"
  \/ tick.mode = "run" /\ tick.todo # << >> /\ u = Head(tick.todo)

Called == IF tick.mode = "run" THEN [tick EXCEPT !.todo = Tail(tick.todo)]
          ELSE tick

\* variant: the gate looks for the row only
Gated_RowOnly(u) == ~autoCmd[u].present

\* if (!autoCmd || !autoCmd.spreadMonitoringEnabled) return
Gated(u) == ~autoCmd[u].present \/ ~autoCmd[u].enabled

\* checkAndExecuteSpreadTrades(userId): no row or monitoring off -> return
CallGated(u) ==
  /\ call = NoCall
  /\ MayCall(u)
  /\ Gated(u)
  /\ last' = NoLast
  /\ tick' = Called
  /\ trail' = IF tick.mode = "free"
              THEN << [key |-> << u, "none" >>, out |-> "gated"] >>
              ELSE trail
  /\ op' = IF tick.mode = "free" THEN NoOp ELSE op
  /\ UNCHANGED << race, isMonitoring, monitoringHandle, chains, wiring,
                  closeCalls, autoCmd, rec, short, auto, call, pend, logA,
                  logB >>

\* checkAndExecuteSpreadTrades(userId) reaches the loop over the commands
BeginCall(u) ==
  /\ call = NoCall
  /\ MayCall(u)
  /\ ~Gated(u)
  /\ call' = IF autoCmd[u].commands = << >> THEN NoCall
             ELSE [user |-> u, idx |-> 1]
  /\ last' = NoLast
  /\ tick' = Called
  /\ trail' = IF tick.mode = "free" THEN << >> ELSE trail
  /\ op' = IF tick.mode = "free" THEN NoOp ELSE op
  /\ UNCHANGED << race, isMonitoring, monitoringHandle, chains, wiring,
                  closeCalls, autoCmd, rec, short, auto, pend, logA, logB >>

Cmd == autoCmd[call.user].commands[call.idx]

Advance == IF call.idx = Len(autoCmd[call.user].commands) THEN NoCall
           ELSE [call EXCEPT !.idx = call.idx + 1]

\* variant: an exception of the loop body ends the call (no per-symbol
\* try/catch)
AfterSymbol_Rethrow(e) == IF e.threw THEN NoCall ELSE Advance

\* where the for loop goes after the body of a symbol: the continue of
\* the price check and the per-symbol catch both stay in the loop
AfterSymbol(e) == Advance

Outcome(e) == IF e.threw THEN "threw"
              ELSE IF ~e.priced THEN "noprice" ELSE "done"

\* variant: a command without a DEX pair is evaluated like the others
HasDexPair_Always(cmd) == TRUE

\* const dexPairId = cmd.dexPairId: the command names a DEX pair
HasDexPair(cmd) == cmd.dexPairId

\* if (!dexPairId) continue
SkipSymbol ==
  /\ call # NoCall
  /\ ~HasDexPair(Cmd)
  /\ call' = Advance
  /\ trail' = Append(trail, [key |-> << call.user, Cmd.symbol >>,
                             out |-> "skip"])
  /\ UNCHANGED << race, sched, wiring, closeCalls, autoCmd, rec, short, auto,
                  last, pend, logA, logB, tick >>

\* history: how an evaluation that a later tick retries ended: in a
\* failed trade call, or in a failed write of the row after the open-short
\* order was placed
PendKind(e) ==
  IF e.at \in {"open", "close"} THEN e.at
  ELSE IF e.at = "write" /\ e.openCall THEN "lostwrite"
  ELSE "none"

\* history: this evaluation repeats the latest one of the pair (same
\* prices and orders, the position as that one left it) and that one
\* ended as PendKind says
Retried(key, in) ==
  IF /\ pend.key = key
     /\ pend.in.m = in.m /\ pend.in.d = in.d /\ pend.in.ord = in.ord
     /\ pend.short = short[key]
  THEN pend.kind
  ELSE "none"

\* variant: the statements select the rows by symbol only
WriteRow_BySymbol(rows, key, row) ==
  [p \in Pairs |-> IF p[2] = key[2] /\ (p = key \/ rows[p].exists)
                   THEN row ELSE rows[p]]

\* the insert of getOrCreateState and the update of updateState:
\* where telegramUserId = userId and symbol = symbol
WriteRow(rows, key, row) == [rows EXCEPT ![key] = row]

\* history: the calls of closeShortCallback for a pair since the latest
\* evaluation that armed its row (the latest ENTER)
CloseCount(n, pre, e) ==
  IF ~pre.wasTriggered /\ e.rec.wasTriggered THEN 0
  ELSE IF e.closeCall THEN n + 1 ELSE n

\* the body of the for loop for one symbol with a DEX pair
EvalSymbol ==
  /\ call # NoCall
  /\ HasDexPair(Cmd)
  /\ \E in \in IF tick.mode = "free" THEN Inputs ELSE TickInputs :
       \E key \in {<< call.user, Cmd.symbol >>} :
       \E e \in {Evaluate(rec[key], short[key], wiring, in)} :
          /\ e.rec.lastActionAt <= MaxWrites
          /\ rec' = WriteRow(rec, key, e.rec)
          /\ short' = [short EXCEPT ![key] =
                         IF e.openSub THEN TRUE
                         ELSE IF e.closeSub THEN FALSE ELSE short[key]]
          /\ auto' = [auto EXCEPT ![key] =
                        IF e.openSub THEN TRUE
                        ELSE IF e.closeSub THEN FALSE ELSE auto[key]]
          /\ last' = [key |-> key, in |-> in, pre |-> rec[key],
                      short |-> short[key], auto |-> auto[key], eff |-> e,
                      prev |-> Retried(key, in)]
          /\ pend' = IF PendKind(e) # "none"
                     THEN [key |-> key, in |-> [in EXCEPT !.faults = {}],
                           short |-> IF e.openSub THEN TRUE ELSE short[key],
                           kind |-> PendKind(e)]
                     ELSE IF pend.key = key THEN NoPend ELSE pend
          /\ logA' = IF key = Tracked
                     THEN NextLog(ScenA, logA, in, rec[key], short[key], e)
                     ELSE logA
          /\ logB' = IF key = Tracked
                     THEN NextLog(ScenB, logB, in, rec[key], short[key], e)
                     ELSE logB
          /\ closeCalls' = [closeCalls EXCEPT ![key] =
                              CloseCount(closeCalls[key], rec[key], e)]
          /\ closeCalls'[key] <= MaxCloses
          /\ call' = AfterSymbol(e)
          /\ trail' = Append(trail, [key |-> key, out |-> Outcome(e)])
  /\ UNCHANGED << race, sched, wiring, autoCmd, tick >>

\* the user opens or closes a SHORT by hand, between two evaluations
ManualOpen(p) ==
  /\ p \in Monitored
  /\ ~short[p]
  /\ short' = [short EXCEPT ![p] = TRUE]
  /\ last' = NoLast
  /\ UNCHANGED << race, sched, wiring, closeCalls, autoCmd, rec, auto, call,
                  pend, logA, logB, tick, trail >>

ManualClose(p) ==
  /\ p \in Monitored
  /\ short[p]
  /\ short' = [short EXCEPT ![p] = FALSE]
  /\ auto' = [auto EXCEPT ![p] = FALSE]
  /\ last' = NoLast
  /\ UNCHANGED << race, sched, wiring, closeCalls, autoCmd, rec, call, pend,
                  logA, logB, tick, trail >>

\* the pairs the debug functions are called for
TestPairs == {Tracked}

\* variant: the debug entry arms the row when it decides to enter
testSpreadEntry_Arms(p) ==
  /\ call = NoCall /\ tick.mode = "free"
  /\ p \in TestPairs
  /\ autoCmd[p[1]].present
  /\ \E i \in 1..Len(autoCmd[p[1]].commands) :
       autoCmd[p[1]].commands[i].symbol = p[2]
  /\ \E read \in BOOLEAN :
       rec' = [rec EXCEPT ![p] =
                 IF read
                 THEN [getOrCreateState(rec[p]) EXCEPT !.wasTriggered = TRUE]
                 ELSE rec[p]]
  /\ op' = [name |-> "testSpreadEntry", c |-> 0, mon |-> isMonitoring]
  /\ last' = NoLast
  /\ UNCHANGED << race, isMonitoring, monitoringHandle, chains, wiring,
                  closeCalls, autoCmd, short, auto, call, pend, logA, logB,
                  tick, trail >>

\* testSpreadEntry(userId, symbol): returns early without a row of
\* autoCommands or without the symbol in its commands; otherwise reads (or
\* creates) the row of the pair, lists positions and orders, and returns
\* the text of the decision it would take at the mock quote 100 / 86.9.
\* read = FALSE: the database fails and the catch returns the error text
testSpreadEntry(p) ==
  /\ call = NoCall /\ tick.mode = "free"
  /\ p \in TestPairs
  /\ autoCmd[p[1]].present
  /\ \E i \in 1..Len(autoCmd[p[1]].commands) :
       autoCmd[p[1]].commands[i].symbol = p[2]
  /\ \E read \in BOOLEAN :
       rec' = [rec EXCEPT ![p] =
                 IF read THEN getOrCreateState(rec[p]) ELSE rec[p]]
  /\ op' = [name |-> "testSpreadEntry", c |-> 0, mon |-> isMonitoring]
  /\ last' = NoLast
  /\ UNCHANGED << race, isMonitoring, monitoringHandle, chains, wiring,
                  closeCalls, autoCmd, short, auto, call, pend, logA, logB,
                  tick, trail >>

\* testSpreadExit(userId, symbol): reads (or creates) the row of the pair,
\* lists the positions, and returns the text of the decision it would take
\* at the mock quote 100 / 101.5
testSpreadExit(p) ==
  /\ call = NoCall /\ tick.mode = "free"
  /\ p \in TestPairs
  /\ \E read \in BOOLEAN :
       rec' = [rec EXCEPT ![p] =
                 IF read THEN getOrCreateState(rec[p]) ELSE rec[p]]
  /\ op' = [name |-> "testSpreadExit", c |-> 0, mon |-> isMonitoring]
  /\ last' = NoLast
  /\ UNCHANGED << race, isMonitoring, monitoringHandle, chains, wiring,
                  closeCalls, autoCmd, short, auto, call, pend, logA, logB,
                  tick, trail >>

Next ==
  \/ \E u \in Users : CallGated(u)
  \/ \E u \in Users : BeginCall(u)
  \/ SkipSymbol
  \/ EvalSymbol
  \/ \E p \in Pairs : ManualOpen(p)
  \/ \E p \in Pairs : ManualClose(p)
  \/ \E p \in Pairs : testSpreadEntry(p)
  \/ \E p \in Pairs : testSpreadExit(p)

Spec == Init /\ [][Next]_vars

\* the service driven with the trade callbacks, the position and order
\* fetchers, or both, as monitoringLoop builds them, and a price fetcher
\* that yields prices
InitWired ==
  /\ wiring \in {{"trade"}, {"inspect"}, {"trade", "inspect"}}
  /\ Init0

SpecWired == InitWired /\ [][Next]_vars

\* ------------------------------------- one pass of monitoringLoop
\* findMany(spreadMonitoringEnabled = true): the rows in the order the
\* database returns them (no orderBy)
EnabledUsers == {u \in Users : autoCmd[u].present /\ autoCmd[u].enabled}

UserLists ==
  {us \in [1..Cardinality(EnabledUsers) -> EnabledUsers] :
     \A i, j \in 1..Len(us) : us[i] = us[j] => i = j}

\* monitoringLoop starts and lists the users
TickBegin ==
  /\ tick.mode = "idle"
  /\ \E us \in UserLists : tick' = [mode |-> "run", all |-> us, todo |-> us]
  /\ last' = NoLast
  /\ trail' = << >>
  /\ UNCHANGED << race, sched, wiring, closeCalls, autoCmd, rec, short, auto,
                  call, pend, logA, logB >>

\* monitoringLoop starts and findMany throws: the pass returns
TickDbError ==
  /\ tick.mode = "idle"
  /\ tick' = IdleTick
  /\ last' = NoLast
  /\ trail' = << >>
  /\ UNCHANGED << race, sched, wiring, closeCalls, autoCmd, rec, short, auto,
                  call, pend, logA, logB >>

\* the for loop over the users is through
TickEnd ==
  /\ tick.mode = "run"
  /\ tick.todo = << >>
  /\ call = NoCall
  /\ tick' = [tick EXCEPT !.mode = "idle"]
  /\ UNCHANGED << race, sched, wiring, closeCalls, autoCmd, rec, short, auto,
                  call, last, pend, logA, logB, trail >>

NextTick ==
  \/ TickBegin
  \/ TickDbError
  \/ \E u \in Users : BeginCall(u)
  \/ SkipSymbol
  \/ EvalSymbol
  \/ TickEnd

SpecTick == InitTick /\ [][NextTick]_vars

\* ------------------------------------------------------ the scheduler
\* spreadMonitoringWorkflow.ts.  A chain is "timer" while its setTimeout
\* is pending, then "list" (awaiting findMany), "user" (in the for loop
\* over the users), "hung" (awaiting a call that never settles), and
\* "free" again once monitoringLoop has returned without a new timer.
\* Suspended executions interleave with every other operation at their
\* awaits.  The closures of monitoringLoop are the callbacks of the
\* service here: the price fetcher yields null, so the service reaches no
\* row and no trade callback.
InFlight == {c \in ChainIds : chains[c].pc \in {"list", "user", "hung"}}
Pending == {c \in ChainIds : chains[c].pc = "timer"}

\* the two users with monitoring enabled, and the closures as callbacks
InitScheduler ==
  /\ wiring = WiringKinds
  /\ autoCmd = [u \in Users |->
                  [present |-> TRUE, enabled |-> TRUE,
                   commands |-> IF u = "u1" THEN ListU1 ELSE ListU2]]
  /\ tick = IdleTick
  /\ InitRows
  /\ InitSched
  /\ InitNoRace

\* startSpreadMonitoring: returns when already running, else sets the
\* flag and arms the first timer
\* variant: no check of isMonitoring
startSpreadMonitoring_NoGuard ==
  /\ op' = [name |-> "start", c |-> 0, mon |-> isMonitoring]
  /\ \E c \in ChainIds :
       /\ chains[c].pc = "free"
       /\ isMonitoring' = TRUE
       /\ chains' = [chains EXCEPT ![c].pc = "timer"]
       /\ monitoringHandle' = c
  /\ UNCHANGED << service, race >>

startSpreadMonitoring ==
  /\ op' = [name |-> "start", c |-> 0, mon |-> isMonitoring]
  /\ IF isMonitoring
     THEN UNCHANGED << isMonitoring, monitoringHandle, chains >>
     ELSE \E c \in ChainIds :
            /\ chains[c].pc = "free"
            /\ isMonitoring' = TRUE
            /\ chains' = [chains EXCEPT ![c].pc = "timer"]
            /\ monitoringHandle' = c
  /\ UNCHANGED << service, race >>

\* stopSpreadMonitoring: returns when not running, else clears the timer
\* of monitoringHandle (no effect on a timer that has fired) and the flag
stopSpreadMonitoring ==
  /\ op' = [name |-> "stop", c |-> 0, mon |-> isMonitoring]
  /\ IF ~isMonitoring
     THEN UNCHANGED << isMonitoring, monitoringHandle, chains >>
     ELSE /\ chains' = IF monitoringHandle \in Pending
                       THEN [chains EXCEPT ![monitoringHandle] = FreeChain]
                       ELSE chains
          /\ monitoringHandle' = 0
          /\ isMonitoring' = FALSE
  /\ UNCHANGED << service, race >>

\* a pending timer fires: monitoringLoop runs up to the await of findMany
TimerFires(c) ==
  /\ chains[c].pc = "timer"
  /\ chains' = [chains EXCEPT ![c].pc = "list"]
  /\ op' = [name |-> "fire", c |-> c, mon |-> isMonitoring]
  /\ UNCHANGED << isMonitoring, monitoringHandle, service, race >>

\* findMany answers with the users that have monitoring enabled
LoopListsUsers(c) ==
  /\ chains[c].pc = "list"
  /\ chains' = [chains EXCEPT ![c] = [pc |-> "user",
                                      todo |-> Cardinality(EnabledUsers)]]
  /\ op' = [name |-> "list", c |-> c, mon |-> isMonitoring]
  /\ UNCHANGED << isMonitoring, monitoringHandle, service, race >>

\* the end of monitoringLoop, and its catch of a findMany error:
\* if (isMonitoring) monitoringHandle = setTimeout(monitoringLoop, ...)
Reschedule(c) ==
  IF isMonitoring
  THEN /\ chains' = [chains EXCEPT ![c] = [pc |-> "timer", todo |-> 0]]
       /\ monitoringHandle' = c
  ELSE /\ chains' = [chains EXCEPT ![c] = FreeChain]
       /\ UNCHANGED monitoringHandle

\* findMany throws: the catch reschedules and returns
LoopDbError(c) ==
  /\ chains[c].pc = "list"
  /\ Reschedule(c)
  /\ op' = [name |-> "dberr", c |-> c, mon |-> isMonitoring]
  /\ UNCHANGED << isMonitoring, service, race >>

\* checkAndExecuteSpreadTrades returns for the next user, or something in
\* the body of the for loop throws and the per-user catch logs it
LoopUserDone(c) ==
  /\ chains[c].pc = "user" /\ chains[c].todo > 0
  /\ chains' = [chains EXCEPT ![c].todo = chains[c].todo - 1]
  /\ op' = [name |-> "user", c |-> c, mon |-> isMonitoring]
  /\ UNCHANGED << isMonitoring, monitoringHandle, service, race >>

\* an external call awaited for the next user (the DEX price fetch, an
\* exchange request, a database query) never settles: no await of the
\* loop or of the service has a timeout
LoopHangs(c) ==
  /\ chains[c].pc = "user" /\ chains[c].todo > 0
  /\ chains' = [chains EXCEPT ![c].pc = "hung"]
  /\ op' = [name |-> "hang", c |-> c, mon |-> isMonitoring]
  /\ UNCHANGED << isMonitoring, monitoringHandle, service, race >>

\* the for loop over the users is through: schedule the next iteration
LoopEnds(c) ==
  /\ chains[c].pc = "user" /\ chains[c].todo = 0
  /\ Reschedule(c)
  /\ op' = [name |-> "end", c |-> c, mon |-> isMonitoring]
  /\ UNCHANGED << isMonitoring, service, race >>

NextScheduler ==
  \/ startSpreadMonitoring
  \/ stopSpreadMonitoring
  \/ \E c \in ChainIds : TimerFires(c)
  \/ \E c \in ChainIds : LoopListsUsers(c)
  \/ \E c \in ChainIds : LoopDbError(c)
  \/ \E c \in ChainIds : LoopUserDone(c)
  \/ \E c \in ChainIds : LoopHangs(c)
  \/ \E c \in ChainIds : LoopEnds(c)

SpecScheduler == InitScheduler /\ [][NextScheduler]_vars

\* the event loop runs every due timer and resumes every execution whose
\* awaited call has settled
SpecSchedulerFair ==
  /\ SpecScheduler
  /\ \A c \in ChainIds :
       /\ WF_vars(TimerFires(c))
       /\ WF_vars(LoopListsUsers(c) \/ LoopDbError(c))
       /\ WF_vars(LoopUserDone(c) \/ LoopHangs(c))
       /\ WF_vars(LoopEnds(c))

\* --------------------------- monitoringLoop driving the service
\* The deployment: index.ts calls startSpreadMonitoring once and nothing
\* calls stopSpreadMonitoring, so one chain of timers runs the passes, and
\* every pass calls checkAndExecuteSpreadTrades with the closures it
\* builds.  The users still to go are tick.todo.

\* findMany answers: the pass enters the for loop over the users
PassLists(c) ==
  /\ chains[c].pc = "list"
  /\ tick.mode = "idle"
  /\ \E us \in UserLists : tick' = [mode |-> "run", all |-> us, todo |-> us]
  /\ chains' = [chains EXCEPT ![c] = [pc |-> "user", todo |-> 0]]
  /\ op' = [name |-> "list", c |-> c, mon |-> isMonitoring]
  /\ last' = NoLast
  /\ trail' = << >>
  /\ UNCHANGED << race, isMonitoring, monitoringHandle, wiring, closeCalls,
                  autoCmd, rec, short, auto, call, pend, logA, logB >>

\* the for loop over the users is through: schedule the next iteration
PassEnds(c) ==
  /\ chains[c].pc = "user"
  /\ tick.mode = "run" /\ tick.todo = << >> /\ call = NoCall
  /\ tick' = [tick EXCEPT !.mode = "idle"]
  /\ Reschedule(c)
  /\ op' = [name |-> "end", c |-> c, mon |-> isMonitoring]
  /\ UNCHANGED << race, isMonitoring, wiring, closeCalls, autoCmd, rec, short,
                  auto, call, last, pend, logA, logB, trail >>

NextShipped ==
  \/ startSpreadMonitoring
  \/ \E c \in ChainIds : TimerFires(c)
  \/ \E c \in ChainIds : PassLists(c)
  \/ \E c \in ChainIds : LoopDbError(c)
  \/ \E u \in Users : BeginCall(u)
  \/ SkipSymbol
  \/ EvalSymbol
  \/ \E c \in ChainIds : PassEnds(c)

SpecShipped == InitScheduler /\ [][NextShipped]_vars

\* the event loop runs every due timer and resumes the pass whenever the
\* call it awaits has settled
SpecShippedFair ==
  /\ SpecShipped
  /\ \A c \in ChainIds :
       /\ WF_vars(TimerFires(c))
       /\ WF_vars(PassLists(c) \/ LoopDbError(c))
       /\ WF_vars(PassEnds(c))
  /\ WF_vars(\E u \in Users : BeginCall(u))
  /\ WF_vars(SkipSymbol)
  /\ WF_vars(EvalSymbol)

\* ------------------------------------ one pair, statement by statement
\* Asynchronous executions that touch the same pair interleave at their
\* awaits: the evaluation of the pair by checkAndExecuteSpreadTrades on a
\* tick with a spread below 2%, the debug functions testSpreadEntry and
\* testSpreadExit, and the /closebs command of the user.  Each database
\* statement and each exchange request is one step.
\*
\* The pair either has no row yet, or has its row with wasTriggered true
\* and the SHORT open.  The schema of spread_monitoring_state is not part
\* of the sources, so the table may or may not have a unique index on
\* (telegram_user_id, symbol).
InitRace ==
  /\ wiring = {}
  /\ autoCmd = [u \in Users |->
                  IF u = "u1"
                  THEN [present |-> TRUE, enabled |-> TRUE,
                        commands |-> ListAC]
                  ELSE NoAutoCmd]
  /\ tick = FreeTick
  /\ InitRows
  /\ InitSched
  /\ uniqueKey \in BOOLEAN
  /\ \/ table = << >> /\ xshort = FALSE
     \/ table = << TRUE >> /\ xshort = TRUE
  /\ procs = [p \in Callers |-> NoProc]
  /\ closeOrders = 0
  /\ manual = "idle"

\* what findFirst returns: the first row that matches
Found == IF table = << >> THEN "none"
         ELSE IF table[1] THEN "armed" ELSE "unarmed"

\* getOrCreateState: the first findFirst; if (!state) goes on to insert
FindFirst(p) ==
  /\ procs[p].pc = "idle"
  /\ procs' = [procs EXCEPT ![p] =
                 IF Found = "none" THEN [pc |-> "insert", state |-> "none"]
                 ELSE [pc |-> "got", state |-> Found]]
  /\ UNCHANGED << table, uniqueKey, xshort, closeOrders, manual, service,
                  sched >>

\* getOrCreateState: db.insert(...).values({wasTriggered: false}); with a
\* unique index a second row is a duplicate-key error, which nothing in
\* getOrCreateState catches
InsertRow(p) ==
  /\ procs[p].pc = "insert"
  /\ IF uniqueKey /\ table # << >>
     THEN /\ procs' = [procs EXCEPT ![p].pc = "threw"]
          /\ UNCHANGED table
     ELSE /\ table' = Append(table, FALSE)
          /\ procs' = [procs EXCEPT ![p].pc = "refind"]
  /\ UNCHANGED << uniqueKey, xshort, closeOrders, manual, service, sched >>

\* getOrCreateState: the second findFirst and return state
FindAgain(p) ==
  /\ procs[p].pc = "refind"
  /\ procs' = [procs EXCEPT ![p] = [pc |-> "got", state |-> Found]]
  /\ UNCHANGED << table, uniqueKey, xshort, closeOrders, manual, service,
                  sched >>

\* the tick, spread below 2%: no entry; the reset block writes
\* wasTriggered = false to every row of the pair when the snapshot is
\* armed, and the exit block follows
ResetWrite ==
  /\ procs["tick"].pc = "got"
  /\ IF procs["tick"].state = "armed"
     THEN /\ table' = [i \in 1..Len(table) |-> FALSE]
          /\ procs' = [procs EXCEPT !["tick"].pc = "exit"]
     ELSE /\ procs' = [procs EXCEPT !["tick"].pc = "done"]
          /\ UNCHANGED table
  /\ UNCHANGED << uniqueKey, xshort, closeOrders, manual, service, sched >>

\* the exit block: positionsFetcher and hasShortPosition
ListPositions ==
  /\ procs["tick"].pc = "exit"
  /\ procs' = [procs EXCEPT !["tick"].pc =
                 IF xshort THEN "close" ELSE "done"]
  /\ UNCHANGED << table, uniqueKey, xshort, closeOrders, manual, service,
                  sched >>

\* the exit block: await closeShortCallback(symbol) submits a close order
CloseShort ==
  /\ procs["tick"].pc = "close"
  /\ closeOrders' = closeOrders + 1
  /\ procs' = [procs EXCEPT !["tick"].pc = "done"]
  /\ UNCHANGED << table, uniqueKey, xshort, manual, service, sched >>

\* /closebs SYMBOL, sent while the SHORT is open: getTenthAskPrice
ClosebsPrice ==
  /\ manual = "idle"
  /\ xshort
  /\ manual' = "priced"
  /\ UNCHANGED << table, uniqueKey, procs, xshort, closeOrders, service,
                  sched >>

\* /closebs: executeToolDirect(closeShortAtPriceTool) submits a close
\* order
ClosebsSubmit ==
  /\ manual = "priced"
  /\ closeOrders' = closeOrders + 1
  /\ manual' = "sent"
  /\ UNCHANGED << table, uniqueKey, procs, xshort, service, sched >>

\* the exchange executes a submitted close order
OrderFills ==
  /\ xshort
  /\ closeOrders > 0
  /\ xshort' = FALSE
  /\ UNCHANGED << table, uniqueKey, procs, closeOrders, manual, service,
                  sched >>

NextRace ==
  \/ \E p \in Callers : FindFirst(p)
  \/ \E p \in Callers : InsertRow(p)
  \/ \E p \in Callers : FindAgain(p)
  \/ ResetWrite
  \/ ListPositions
  \/ CloseShort
  \/ ClosebsPrice
  \/ ClosebsSubmit
  \/ OrderFills

SpecRace == InitRace /\ [][NextRace]_vars

\* ------------------------------------------------------------ properties
\* the latest step evaluated a pair and both prices were available
Priced == last.key # NoKey /\ last.eff.priced
LastSpread == IF last.in.d = 0 THEN 0
              ELSE calculateSpread(last.in.m, last.in.d)
Favorable == last.in.m > last.in.d
InspectFaults == {"pos1", "pos2", "ord"}
\* the calls an entry goes through before wasTriggered is persisted
EntryFaults == InspectFaults \cup {"read", "open", "write"}

\* C1: hysteresis.  A tick that finds wasTriggered persisted as true
\* calls no open-short; the flag goes from true to false only on a tick
\* that observed a spread below 7%; and along the spread sequence
\* 14, 10, 14, 10 (MEXC above DEX, started unarmed without position) the
\* open-short is called on the first tick and on no other.
C1_Hysteresis ==
  /\ Priced /\ last.pre.wasTriggered => ~last.eff.openCall
  /\ Priced /\ last.pre.wasTriggered /\ ~last.eff.rec.wasTriggered
       => LastSpread < RESET_SPREAD * Scale
  /\ \A i \in 1..Len(logA) : logA[i].open <=> i = 1
  /\ \A i \in 1..Len(logA) : logA[i].armed

C1_Witness == Len(logA) = 4 /\ logA[1].open /\ last.in.m = 1100

\* C2: entry guard.  On a tick that reads wasTriggered false with both
\* prices, MEXC above DEX, no open SHORT and no pending order: an
\* open-short is called only if the spread is at least 13%, and the flag
\* is true afterwards only then; when the listings and the order go
\* through and the row is read and written, a spread of at least 13% (13%
\* included) calls the open-short, has it accepted and leaves the flag
\* true.
C2_EntryGuard ==
  (Priced /\ ~last.pre.wasTriggered /\ Favorable /\ ~last.short
     /\ ~last.in.ord)
  => /\ last.eff.openCall => LastSpread >= ENTRY_SPREAD * Scale
     /\ last.eff.rec.wasTriggered => LastSpread >= ENTRY_SPREAD * Scale
     /\ (LastSpread >= ENTRY_SPREAD * Scale
         /\ last.in.faults \cap EntryFaults = {})
        => /\ last.eff.openCall /\ last.eff.openSub
           /\ last.eff.rec.wasTriggered

C2_Witness ==
  /\ Priced /\ ~last.pre.wasTriggered /\ ~last.short /\ ~last.in.ord
  /\ LastSpread = ENTRY_SPREAD * Scale /\ last.eff.openCall
  /\ rec[last.key].wasTriggered

\* C3: when the open-short call throws, the row is what getOrCreateState
\* read (flag false, snapshot and lastActionAt as before), nothing is
\* notified, and a following tick of the pair under the same prices,
\* orders and position, with the row read and the listings answering,
\* calls it again.
C3_OpenThrows ==
  /\ (Priced /\ last.eff.at = "open")
     => /\ last.eff.rec = getOrCreateState(last.pre)
        /\ ~last.eff.rec.wasTriggered
        /\ last.eff.notes = 0
  /\ (Priced /\ last.prev = "open"
      /\ last.in.faults \cap (InspectFaults \cup {"read"}) = {})
     => last.eff.openCall

C3_Witness ==
  /\ Priced /\ last.prev = "open" /\ last.eff.openCall
  /\ rec[last.key].wasTriggered

\* C4: a tick whose open-short order the exchange does not accept leaves
\* wasTriggered false and sends no notification.
C4_Claim ==
  (Priced /\ last.eff.openCall /\ ~last.eff.openSub)
  => ~last.eff.rec.wasTriggered /\ last.eff.notes = 0

\* C5: when the close-short call throws on a tick that read wasTriggered
\* true with a spread below 2% and an open SHORT, the persisted flag is
\* still true after the tick.
C5_Claim ==
  (Priced /\ last.pre.wasTriggered /\ LastSpread < EXIT_SPREAD * Scale
     /\ last.short /\ last.eff.at = "close")
  => last.eff.rec.wasTriggered

\* C6: a tick that observes a spread below 2% while the SHORT opened by
\* the engine is still open calls the close-short (every listing of the
\* tick answering).
C6_Claim ==
  (Priced /\ last.auto /\ last.short
     /\ LastSpread < EXIT_SPREAD * Scale /\ last.in.faults = {})
  => last.eff.closeCall

\* C7 as stated: along the spreads 14, 6, 14 the open-short is called on
\* the first tick, the flag is cleared on the second and the open-short
\* is called again on the third.
C7_Claim ==
  Len(logB) = 3
  => logB[1].open /\ ~logB[2].armed /\ logB[3].open

\* C7 amended: the third tick calls the open-short again exactly when it
\* finds no open SHORT of the symbol; while the SHORT of the first tick
\* is still open the duplicate-entry guard holds the entry back.
C7_ResetRearms ==
  /\ Len(logB) >= 1 => logB[1].open /\ logB[1].armed
  /\ Len(logB) >= 2 => ~logB[2].open /\ ~logB[2].armed
  /\ Len(logB) = 3 => /\ logB[3].open <=> ~logB[3].short
                      /\ logB[3].armed <=> ~logB[3].short

C7_Witness == Len(logB) = 3 /\ logB[3].open /\ rec[Tracked].lastActionAt = 3

\* C8: duplicate-entry guard.  On a tick that reads wasTriggered false
\* with a spread of at least 13% and MEXC above DEX, an open SHORT of the
\* symbol or any listed order of the symbol means: no open-short call,
\* flag still false, no notification.
C8_DuplicateGuard ==
  (Priced /\ ~last.pre.wasTriggered /\ Favorable
     /\ LastSpread >= ENTRY_SPREAD * Scale
     /\ (last.short \/ last.in.ord))
  => /\ ~last.eff.openCall
     /\ ~last.eff.rec.wasTriggered
     /\ last.eff.notes = 0

C8_Witness ==
  /\ Priced /\ ~last.pre.wasTriggered /\ Favorable
  /\ LastSpread >= ENTRY_SPREAD * Scale
  /\ ~last.short /\ last.in.ord /\ last.in.faults = {}
  /\ ~rec[last.key].wasTriggered

\* C9: a tick whose entry guards pass and on which listing the positions
\* or the orders fails calls no open-short.
C9_Claim ==
  (Priced /\ ~last.pre.wasTriggered /\ Favorable
     /\ LastSpread >= ENTRY_SPREAD * Scale
     /\ last.in.faults \cap InspectFaults # {})
  => ~last.eff.openCall

\* C10: exit requires a position.  On a tick that reads wasTriggered
\* true with a spread below 2% and whose position list holds no open
\* SHORT of the symbol (the row read and written), the flag is cleared,
\* no close-short is called and nothing is notified.
C10_ExitNeedsPosition ==
  (Priced /\ last.pre.wasTriggered /\ LastSpread < EXIT_SPREAD * Scale
     /\ ~last.short
     /\ last.in.faults \cap {"read", "pos1", "write", "pos3"} = {})
  => /\ ~last.eff.rec.wasTriggered
     /\ ~last.eff.closeCall
     /\ last.eff.notes = 0

C10_Witness ==
  /\ Priced /\ last.pre.wasTriggered /\ LastSpread < EXIT_SPREAD * Scale
  /\ ~last.short /\ ~rec[last.key].wasTriggered
  /\ last.pre.lastActionAt < rec[last.key].lastActionAt

\* the commands a pass over the users us has to handle, in order
RECURSIVE Planned(_)
Planned(us) ==
  IF us = << >> THEN << >>
  ELSE [i \in 1..Len(autoCmd[Head(us)].commands) |->
          << Head(us), autoCmd[Head(us)].commands[i].symbol >>]
       \o Planned(Tail(us))

\* a pass handles the commands of its users in order, and a pass that is
\* through has handled every one of them
PassCovers ==
  tick.mode # "free"
  => LET plan == Planned(tick.all)
     IN /\ Len(trail) <= Len(plan)
        /\ \A i \in 1..Len(trail) : trail[i].key = plan[i]
        /\ tick.mode = "idle" => Len(trail) = Len(plan)

\* the position of the for loop after the latest handled command
AfterLatest ==
  LET t == trail[Len(trail)]
      cmds == autoCmd[t.key[1]].commands
      i == CHOOSE j \in 1..Len(cmds) : cmds[j].symbol = t.key[2]
  IN IF i = Len(cmds) THEN NoCall ELSE [user |-> t.key[1], idx |-> i + 1]

\* C11: unavailable price.  An evaluation that gets no MEXC price or no
\* DEX price leaves the row of the symbol as it was (a missing row is not
\* created, and a failing database goes unnoticed because the row is not
\* read), calls neither open-short nor close-short, notifies nothing, and
\* the loop goes on with the next command of the user; the pass handles
\* every command of every listed user.
C11_UnavailablePrice ==
  /\ (last.key # NoKey /\ ~last.eff.priced)
     => /\ last.eff.rec = last.pre /\ rec[last.key] = last.pre
        /\ ~last.eff.openCall /\ ~last.eff.closeCall
        /\ short[last.key] = last.short
        /\ last.eff.notes = 0
        /\ "price" \notin last.in.faults => ~last.eff.threw
  /\ (trail # << >> /\ trail[Len(trail)].out = "noprice"
      /\ AfterLatest # NoCall)
     => call = AfterLatest
  /\ PassCovers

C11_Witness ==
  /\ tick.mode = "run"
  /\ last.key = << "u1", "B" >> /\ last.eff.priced /\ last.eff.openSub
  /\ \E i \in 1..Len(trail) :
       trail[i] = [key |-> << "u1", "A" >>, out |-> "noprice"]
  /\ rec[<< "u1", "A" >>] = NoRec
  /\ rec[<< "u1", "B" >>].wasTriggered

\* C12: unfavorable direction.  An evaluation with the MEXC price not
\* above the DEX price calls no open-short and does not write
\* wasTriggered = true: a flag that is true afterwards was true before and
\* the row is untouched, whatever the spread and the state.
C12_Unfavorable ==
  (last.key # NoKey /\ last.in.m <= last.in.d)
  => /\ ~last.eff.openCall /\ ~last.eff.openSub
     /\ last.eff.rec.wasTriggered
        => last.pre.wasTriggered /\ last.eff.rec = last.pre

C12_Witness ==
  /\ Priced /\ last.in.m = 860 /\ last.in.d = 1000
  /\ LastSpread >= ENTRY_SPREAD * Scale
  /\ ~last.pre.wasTriggered /\ ~last.short /\ ~last.in.ord
  /\ last.in.faults = {}
  /\ rec[last.key].exists /\ ~rec[last.key].wasTriggered
  /\ ~last.eff.openCall

\* C13: the reset and exit comparisons are strict.  On an evaluation
\* that reads wasTriggered true: a spread of exactly 7% leaves the row as
\* it was, flag true; a spread of exactly 2% calls no close-short, open
\* SHORT or not; and every spread below 7% leaves the flag false once the
\* row is read, the positions are listed and the row is written.
C13_StrictResetExit ==
  /\ (Priced /\ last.pre.wasTriggered /\ LastSpread = RESET_SPREAD * Scale)
     => last.eff.rec.wasTriggered /\ last.eff.rec = last.pre
  /\ (Priced /\ last.pre.wasTriggered /\ LastSpread = EXIT_SPREAD * Scale)
     => ~last.eff.closeCall /\ ~last.eff.closeSub
  /\ (Priced /\ last.pre.wasTriggered /\ LastSpread < RESET_SPREAD * Scale
      /\ last.in.faults \cap {"read", "pos1", "write"} = {})
     => ~last.eff.rec.wasTriggered

C13_Witness ==
  /\ Priced /\ last.pre.wasTriggered /\ LastSpread = EXIT_SPREAD * Scale
  /\ last.short /\ last.in.faults = {}
  /\ short[last.key] /\ ~last.eff.closeCall
  /\ ~rec[last.key].wasTriggered

\* C14: combined EXIT and RESET.  An evaluation that reads wasTriggered
\* true with a spread below 2% and an open SHORT, and on which the row is
\* read and written, the positions are listed and the close-short call
\* succeeds, calls the close-short (once: the exit block has a single
\* call), has it accepted, and leaves the persisted flag false.
C14_ExitAndReset ==
  (Priced /\ last.pre.wasTriggered /\ LastSpread < EXIT_SPREAD * Scale
     /\ last.short
     /\ last.in.faults \cap {"read", "pos1", "write", "pos3", "close"} = {})
  => /\ last.eff.closeCall /\ last.eff.closeSub
     /\ ~last.eff.openCall
     /\ ~last.eff.rec.wasTriggered

C14_Witness ==
  /\ Priced /\ last.pre.wasTriggered /\ last.short
  /\ last.in.m = 1000 /\ last.in.d = 1015 /\ last.in.faults = {}
  /\ last.eff.closeSub /\ ~short[last.key]
  /\ ~rec[last.key].wasTriggered
  /\ rec[last.key].snap = << 1000, 1015, calculateSpread(1000, 1015) >>

\* C15: ticks never overlap.  At most one execution of monitoringLoop is
\* in progress and at most one monitoring timer is pending.
C15_Claim ==
  /\ Cardinality(InFlight) <= 1
  /\ Cardinality(Pending) <= 1

\* C16: failure isolation.  After an exception in the body of the for
\* loop for one symbol (price fetch, row read or write, position listing,
\* trade call, notification) the loop is at the next command of the user;
\* a pass handles the commands of all its users in order and is through
\* only when every one of them has been handled.
C16_FailureIsolation ==
  /\ (trail # << >> /\ trail[Len(trail)].out = "threw"
      /\ AfterLatest # NoCall)
     => call = AfterLatest
  /\ PassCovers

\* the notification of the entry of (u1, A) and the price fetch of
\* (u1, B) threw, and (u2, B) was evaluated and entered in the same pass
C16_Witness ==
  /\ tick.mode = "idle" /\ tick.all = << "u1", "u2" >>
  /\ Len(trail) = 4
  /\ trail[1] = [key |-> << "u1", "A" >>, out |-> "threw"]
  /\ trail[3] = [key |-> << "u1", "B" >>, out |-> "threw"]
  /\ trail[4] = [key |-> << "u2", "B" >>, out |-> "done"]
  /\ rec[<< "u1", "A" >>].wasTriggered
  /\ rec[<< "u1", "B" >>] = NoRec
  /\ rec[<< "u2", "B" >>].wasTriggered
  /\ last.key = << "u2", "B" >> /\ last.eff.openSub

\* C17: while monitoring is running, an execution of monitoringLoop that
\* completes (at its end or in the catch of a findMany error) leaves
\* exactly one timer pending.
C17_Claim ==
  (op.name \in {"end", "dberr"} /\ op.mon) => Cardinality(Pending) = 1

\* C18: an execution of monitoringLoop that awaits an external call which
\* never returns still completes eventually (with the next timer armed
\* while monitoring is running).
C18_Claim ==
  \A c \in ChainIds :
    chains[c].pc = "hung" ~> chains[c].pc \in {"timer", "free"}

\* C19: idempotent re-init.  Calls of getOrCreateState that run
\* concurrently for a pair all return without throwing, and the pair
\* never has more than one row.
C19_Claim ==
  /\ \A p \in Callers : procs[p].pc # "threw"
  /\ Len(table) <= 1

\* C20: a /closebs of the user that runs concurrently with the auto-exit
\* of a tick for the same pair never results in two close orders
\* submitted for the same open SHORT.
C20_Claim == closeOrders <= 1

\* C21: a tick that repeats, with the same prices, the tick whose write of
\* the row failed after the open-short was submitted (wasTriggered is still
\* false) submits no second open-short while the listing of positions or
\* of orders shows the SHORT or a pending order.
C21_LostWriteRetry ==
  (last.prev = "lostwrite" /\ ~last.pre.wasTriggered
     /\ (last.short \/ last.in.ord))
  => ~last.eff.openCall

C21_Witness ==
  /\ Priced /\ last.prev = "lostwrite" /\ last.in.faults = {}
  /\ last.pre.exists /\ ~last.pre.wasTriggered
  /\ LastSpread >= ENTRY_SPREAD * Scale /\ Favorable
  /\ last.short /\ ~last.in.ord
  /\ ~last.eff.openCall /\ ~last.eff.rec.wasTriggered

\* telegramSender was called by the latest evaluation (it returned, or it
\* rejected), and a trade callback of that evaluation returned
Notified == last.eff.notes > 0 \/ last.eff.at = "note"
TradeReturned ==
  \/ last.eff.openCall /\ last.eff.at # "open"
  \/ last.eff.closeCall /\ last.eff.at # "close"

\* C22 (as stated): telegramSender is called on a tick if and only if the
\* open-short or the close-short call of that tick returned successfully.
C22_Claim == Notified <=> TradeReturned

\* C22 (amended): telegramSender is called only on a tick whose open-short
\* or close-short call returned successfully, and on every such tick
\* unless the write of the row that follows the open-short fails.
C22_NotifyOnlyTrades ==
  /\ Notified => TradeReturned
  /\ (TradeReturned /\ last.eff.at # "write") => Notified

C22_Witness ==
  /\ Priced /\ last.in.faults = {}
  /\ last.eff.openCall /\ last.eff.openSub
  /\ last.eff.rec.wasTriggered /\ last.eff.notes = 1

\* C23: a rejected notification does not affect the trade logic.  When
\* telegramSender throws after the open-short of an entry the row holds
\* wasTriggered = true (written before the notification, not undone);
\* when it throws after the close-short of an exit the row holds
\* wasTriggered = false; and the loop is at the next command of the user,
\* the pass handling every command of every listed user.
C23_NotifyFailure ==
  /\ (last.eff.at = "note" /\ last.eff.openCall)
     => /\ ~last.pre.wasTriggered /\ last.eff.openSub
        /\ last.eff.rec.wasTriggered /\ rec[last.key].wasTriggered
  /\ (last.eff.at = "note" /\ last.eff.closeCall)
     => /\ last.pre.wasTriggered /\ last.eff.closeSub
        /\ ~last.eff.rec.wasTriggered /\ ~rec[last.key].wasTriggered
  /\ (last.eff.at = "note" /\ trail # << >>
      /\ trail[Len(trail)].key = last.key /\ AfterLatest # NoCall)
     => call = AfterLatest
  /\ PassCovers

\* the notification of the exit of (u1, A) threw and the loop is at the
\* next command of u1
C23_Witness ==
  /\ tick.mode = "run"
  /\ last.key = << "u1", "A" >> /\ last.eff.at = "note"
  /\ last.eff.closeSub /\ ~short[last.key]
  /\ ~rec[last.key].wasTriggered
  /\ rec[last.key].lastActionAt = last.pre.lastActionAt + 1
  /\ call = [user |-> "u1", idx |-> 2]

\* C24: the exchange price fetch is a pure read.  Obtaining the MEXC
\* price of a symbol on a tick of monitoringLoop submits no order to the
\* exchange and leaves the row of the pair as it was.
C24_Claim ==
  last.key # NoKey
  => ~last.eff.longSub /\ (~last.eff.priced => rec[last.key] = last.pre)

\* C25: end to end.  Once a pass of the running monitor has evaluated a
\* monitored symbol with a DEX pair while the pair is not armed, no SHORT
\* and no order is open, every call answers and MEXC quotes 14% above the
\* DEX price, a market SHORT is eventually submitted.
EntryOffered ==
  /\ isMonitoring /\ tick.mode = "run"
  /\ last.key \in Monitored
  /\ last.in.m = 1140 /\ last.in.d = 1000
  /\ last.in.faults = {} /\ ~last.in.ord
  /\ ~last.pre.wasTriggered /\ ~last.short

C25_Claim == EntryOffered ~> (\E p \in Pairs : short[p])

\* C26: single writer of wasTriggered.  The flag of an existing row
\* changes only in an evaluation of the pair by
\* checkAndExecuteSpreadTrades: from false to true with an open-short
\* call at a favorable spread of 13% or more, from true to false at a
\* spread below 7%.  testSpreadEntry and testSpreadExit leave every
\* existing row, every position and every order as they are.
C26_SingleWriter ==
  [][/\ \A p \in Pairs :
          (rec[p].exists /\ rec'[p].wasTriggered # rec[p].wasTriggered)
          => /\ last'.key = p /\ last'.pre = rec[p]
             /\ last'.eff.rec = rec'[p]
             /\ IF rec'[p].wasTriggered
                THEN /\ last'.eff.openCall /\ last'.in.m > last'.in.d
                     /\ calculateSpread(last'.in.m, last'.in.d)
                          >= ENTRY_SPREAD * Scale
                ELSE /\ ~last'.eff.openCall
                     /\ calculateSpread(last'.in.m, last'.in.d)
                          < RESET_SPREAD * Scale
     /\ (\E p \in Pairs : testSpreadEntry(p) \/ testSpreadExit(p))
        => /\ UNCHANGED << short, auto >>
           /\ \A q \in Pairs : rec[q].exists => rec'[q] = rec[q]
    ]_vars

\* testSpreadExit has just run on the armed row of a pair with its SHORT
\* open (the decision it prints is to close)
C26_Witness ==
  /\ op.name = "testSpreadExit" /\ last = NoLast
  /\ rec[Tracked].wasTriggered /\ short[Tracked] /\ auto[Tracked]

\* C27: monitoring enablement gates everything.  For a user without a
\* row of autoCommands or with spreadMonitoringEnabled false, no call of
\* checkAndExecuteSpreadTrades gets past the gate: no command of the user
\* is handled (no price fetched), no row of spread_monitoring_state
\* exists for the user, no order is submitted and no notification sent.
C27_EnablementGate ==
  \A u \in Users :
    ~(autoCmd[u].present /\ autoCmd[u].enabled)
    => /\ call.user # u /\ last.key[1] # u /\ pend.key[1] # u
       /\ \A i \in 1..Len(trail) :
            trail[i].key[1] = u => trail[i].out = "gated"
       /\ \A s \in Symbols :
            /\ rec[<< u, s >>] = NoRec
            /\ ~short[<< u, s >>] /\ ~auto[<< u, s >>]

\* the service has just returned at the gate for a user whose row lists
\* a symbol with a DEX pair, monitoring off
C27_Witness ==
  /\ trail = << [key |-> << "u2", "none" >>, out |-> "gated"] >>
  /\ autoCmd["u2"].present /\ ~autoCmd["u2"].enabled
  /\ autoCmd["u2"].commands = ListU2
  /\ call = NoCall /\ last = NoLast
  /\ rec[<< "u2", "B" >>] = NoRec

\* C28: a monitored symbol without a dexPairId is never evaluated.  Every
\* time the loop comes to its command it goes on to the next one: no
\* price is fetched for the pair, no row of the pair is created or
\* written, and no order or notification is produced for it.
C28_NoDexPair ==
  \A u \in Users : \A i \in 1..Len(autoCmd[u].commands) :
    LET p == << u, autoCmd[u].commands[i].symbol >>
    IN ~autoCmd[u].commands[i].dexPairId
       => /\ rec[p] = NoRec /\ ~short[p] /\ ~auto[p]
          /\ last.key # p /\ pend.key # p
          /\ \A j \in 1..Len(trail) :
               trail[j].key = p => trail[j].out = "skip"

\* a call has entered on A and gone past C
C28_Witness ==
  /\ Len(trail) = 2 /\ call = NoCall
  /\ trail[1] = [key |-> << "u1", "A" >>, out |-> "done"]
  /\ trail[2] = [key |-> << "u1", "C" >>, out |-> "skip"]
  /\ last.key = << "u1", "A" >> /\ last.eff.openSub /\ last.eff.notes = 1
  /\ rec[<< "u1", "C" >>] = NoRec

\* C29: SKIP and HOLD are no-ops.  An evaluation that reads an existing
\* row and neither enters, resets nor exits (flag false and the spread
\* below 13%, MEXC not above DEX, or a SHORT or an order listed; flag
\* true and the spread at 7% or more) leaves the row exactly as it was
\* (wasTriggered, last prices, last spread, lastActionAt), calls neither
\* open-short nor close-short and notifies nothing.
C29_SkipHoldNoOp ==
  (/\ Priced /\ last.pre.exists
   /\ \/ /\ ~last.pre.wasTriggered
         /\ \/ LastSpread < ENTRY_SPREAD * Scale
            \/ ~Favorable
            \/ last.short \/ last.in.ord
      \/ /\ last.pre.wasTriggered
         /\ LastSpread >= RESET_SPREAD * Scale)
  => /\ last.eff.rec = last.pre /\ rec[last.key] = last.pre
     /\ ~last.eff.openCall /\ ~last.eff.closeCall
     /\ short[last.key] = last.short
     /\ last.eff.notes = 0

\* a HOLD at 10% with the SHORT open, and a row written once before
C29_Witness ==
  /\ Priced /\ last.in.faults = {}
  /\ last.pre.wasTriggered /\ last.pre.lastActionAt = 1
  /\ last.in.m = 1100 /\ last.in.d = 1000
  /\ last.short /\ short[last.key]
  /\ rec[last.key] = last.pre
  /\ rec[last.key].snap = << 1140, 1000, calculateSpread(1140, 1000) >>

\* C30: the decision label of a tick identifies the action of the tick:
\* the label is "enter" exactly when an open-short is submitted, and a
\* tick that submits a close-short is labelled "close".
C30_Claim ==
  /\ last.eff.decision = "enter" <=> last.eff.openSub
  /\ last.eff.closeSub => last.eff.decision = "close"

\* C31: ENTER is exclusive of RESET and EXIT within one evaluation.  An
\* evaluation never calls both open-short and close-short and writes the
\* row at most once: after an open-short call the row is either as it
\* was read or armed, and after a close-short call it is never armed by
\* that evaluation.
C31_EnterExclusive ==
  last.key # NoKey
  => /\ ~(last.eff.openCall /\ last.eff.closeCall)
     /\ last.eff.rec.lastActionAt <= last.pre.lastActionAt + 1
     /\ last.eff.openCall
        => /\ ~last.pre.wasTriggered
           /\ \/ last.eff.rec = getOrCreateState(last.pre)
              \/ last.eff.rec.wasTriggered
     /\ last.eff.closeCall
        => last.pre.wasTriggered /\ ~last.eff.rec.wasTriggered

\* the second entry of a pair: one write, no close-short
C31_Witness ==
  /\ Priced /\ last.in.faults = {}
  /\ last.pre.exists /\ last.pre.lastActionAt = 2
  /\ last.eff.openSub /\ ~last.eff.closeCall
  /\ last.eff.rec.wasTriggered /\ last.eff.rec.lastActionAt = 3
  /\ short[last.key]

\* C32: RESET without trade.  An evaluation that reads wasTriggered true
\* at a spread of at least 2% and below 7% calls neither open-short nor
\* close-short and notifies nothing, with or without an open SHORT; when
\* the row is read and written and the positions are listed, the flag is
\* false afterwards and the row holds the prices and the spread of this
\* evaluation.
C32_ResetNoTrade ==
  (Priced /\ last.pre.wasTriggered
     /\ LastSpread >= EXIT_SPREAD * Scale /\ LastSpread < RESET_SPREAD * Scale)
  => /\ ~last.eff.openCall /\ ~last.eff.closeCall /\ last.eff.notes = 0
     /\ short[last.key] = last.short
     /\ last.in.faults \cap {"read", "pos1", "write"} = {}
        => /\ ~rec[last.key].wasTriggered
           /\ rec[last.key].snap = << last.in.m, last.in.d, LastSpread >>
           /\ rec[last.key].lastActionAt = last.pre.lastActionAt + 1

\* a reset at 6% while the SHORT of the entry is still open
C32_Witness ==
  /\ Priced /\ last.pre.wasTriggered /\ last.in.faults = {}
  /\ last.in.m = 1060 /\ last.in.d = 1000
  /\ last.short /\ last.auto /\ short[last.key]
  /\ ~rec[last.key].wasTriggered
  /\ rec[last.key].snap = << 1060, 1000, calculateSpread(1060, 1000) >>

\* C33: RESET does not depend on position inspection.  An evaluation
\* that reads wasTriggered true at a spread below 7%, with the database
\* answering, leaves the flag false even if a listing of the positions
\* fails.
C33_Claim ==
  (Priced /\ last.pre.wasTriggered /\ LastSpread < RESET_SPREAD * Scale
     /\ last.in.faults \cap {"read", "write"} = {})
  => ~last.eff.rec.wasTriggered

\* C34: at most one auto-close per armed episode.  Between an evaluation
\* that arms the row of a pair and the next one that does,
\* closeShortCallback is called at most once for the pair, and an
\* evaluation that calls it has written wasTriggered = false.
C34_OneClosePerEpisode ==
  /\ \A p \in Pairs : closeCalls[p] <= 1
  /\ (last.key # NoKey /\ last.eff.closeCall)
     => /\ last.pre.wasTriggered /\ ~rec[last.key].wasTriggered
        /\ closeCalls[last.key] = 1

\* after the close-short of the episode failed, a later evaluation below
\* 2% with the SHORT still open calls no close-short
C34_Witness ==
  /\ Priced /\ last.in.faults = {}
  /\ LastSpread < EXIT_SPREAD * Scale
  /\ ~last.pre.wasTriggered /\ last.short /\ last.auto
  /\ closeCalls[last.key] = 1 /\ ~last.eff.closeCall
  /\ short[last.key]

\* C35: startSpreadMonitoring is idempotent while running, and
\* stopSpreadMonitoring does nothing when not running: such a call leaves
\* isMonitoring, monitoringHandle, every timer and every execution of
\* monitoringLoop as they were.
C35_Idempotent ==
  [][/\ (startSpreadMonitoring /\ isMonitoring)
        => /\ UNCHANGED << isMonitoring, monitoringHandle, chains >>
           /\ Pending' = Pending /\ InFlight' = InFlight
     /\ (stopSpreadMonitoring /\ ~isMonitoring)
        => /\ UNCHANGED << isMonitoring, monitoringHandle, chains >>
           /\ Pending' = Pending /\ InFlight' = InFlight
    ]_vars

\* startSpreadMonitoring has returned at its check while a pass of
\* monitoringLoop was in progress: no timer is pending
C35_Witness ==
  /\ op.name = "start" /\ op.mon /\ isMonitoring
  /\ Pending = {} /\ Cardinality(InFlight) = 1

\* C36: stop is effective.  Once stopSpreadMonitoring has returned and
\* until startSpreadMonitoring is called again (isMonitoring is false), no
\* timer is pending and no execution of monitoringLoop begins.
C36_Claim ==
  /\ op.name = "fire" => op.mon
  /\ ~isMonitoring => Pending = {}

\* C37: the spread is only computed from usable prices.  An evaluation
\* that gets to the threshold guards has a MEXC and a DEX price other
\* than 0 and a spread of at least 0; an evaluation with a missing or
\* zero price reads no row, logs no decision and calls no trade callback;
\* every snapshot written to a row has a DEX price other than 0.
C37_UsablePrices ==
  /\ Priced
     => /\ last.in.m # 0 /\ last.in.d # 0
        /\ calculateSpread(last.in.m, last.in.d) >= 0
  /\ (last.key # NoKey /\ (last.in.m = 0 \/ last.in.d = 0))
     => /\ ~last.eff.priced /\ last.eff.decision = "none"
        /\ ~last.eff.openCall /\ ~last.eff.closeCall
        /\ last.eff.rec = last.pre
  /\ \A p \in Pairs :
       rec[p].snap # NoSnap => rec[p].snap[2] # 0 /\ rec[p].snap[3] >= 0

\* a DEX price of 0 against an existing unarmed row, nothing open
C37_Witness ==
  /\ last.key # NoKey /\ last.in.m = 1000 /\ last.in.d = 0
  /\ last.in.faults = {} /\ ~last.in.ord
  /\ last.pre.exists /\ ~last.pre.wasTriggered /\ ~last.short
  /\ ~last.eff.openCall /\ rec[last.key] = last.pre

\* C38: per-pair isolation of state.  The evaluation of a pair reads the
\* row of that user and symbol and writes no other row: the flag, the
\* snapshot and lastActionAt of every other pair are as they were, and so
\* are the positions of every other pair.
C38_PairIsolation ==
  [][EvalSymbol
     => LET key == << call.user, Cmd.symbol >>
        IN /\ last'.key = key /\ last'.pre = rec[key]
           /\ rec'[key] = last'.eff.rec
           /\ \A p \in Pairs \ {key} :
                /\ rec'[p] = rec[p]
                /\ short'[p] = short[p] /\ auto'[p] = auto[p]
                /\ closeCalls'[p] = closeCalls[p]
    ]_vars

\* u2 has just entered on B while the row of (u1, B), armed by an earlier
\* entry at another quote and reset since, is unarmed
C38_Witness ==
  /\ last.key = << "u2", "B" >> /\ last.eff.openSub
  /\ rec[<< "u2", "B" >>].wasTriggered
  /\ rec[<< "u2", "B" >>].lastActionAt = 1
  /\ rec[<< "u1", "B" >>].exists /\ ~rec[<< "u1", "B" >>].wasTriggered
  /\ rec[<< "u1", "B" >>].lastActionAt = 2
  /\ rec[<< "u1", "A" >>] = NoRec

====
